---- MODULE Spec2Model ----
(***************************************************************************)
(* Model of watch_and_process.py ("Process SR Report").                    *)
(*                                                                         *)
(* The specifications of this module:                                      *)
(*   SpecT  - transform_workbook applied (repeatedly) to one worksheet;    *)
(*            strings are sequences of one-character strings, so that      *)
(*            parse_hyperlink_formula and the inline URL search are        *)
(*            computed character by character as the code does.            *)
(*   Spec   - the watcher: NewFileHandler._process driven by events, with  *)
(*            the stability poll interleaved with the file system.         *)
(*   SpecGate - the watcher on one event, with the sampled sizes recorded. *)
(*   SpecPub  - copy_to_sharepoint applied to a destination folder.        *)
(*   SpecLive - the watcher with the handler thread scheduled fairly.      *)
(***************************************************************************)
EXTENDS Integers, Sequences, FiniteSets, TLC

VARIABLES
    \* ---- worksheet side (SpecT) ----
    ws,         \* the first worksheet: [max_row, cells[r][c] = [value, hyperlink]]
    start_row,  \* cfg["start_row"]
    col_b,      \* cfg["col_b"]
    sep,        \* cfg["separator"]
    calls,      \* number of completed transform_workbook calls on ws
    changed,    \* value returned by the last transform_workbook call
    saves,      \* number of wb.save calls so far
    ws0,        \* the worksheet as it was before the first call
    ws1,        \* the worksheet as it was after the first call
    \* ---- watcher side (Spec, SpecGate) ----
    pattern,    \* cfg["pattern"]
    win32,      \* Excel automation is importable (win32 is not None)
    now,        \* the wall clock, in seconds
    alive,      \* the observer's event thread is running
    nevents,    \* events delivered to the handler so far
    pc,         \* where _process stands: idle, poll, normalize, transform, stamp, publish
    cur,        \* the event's file: [name, age], age = now - st_mtime at the event
    src,        \* the local `src`: name of the workbook being processed
    last,       \* is_file_stable: last
    same,       \* is_file_stable: same
    polls,      \* is_file_stable: iterations (one-second sleeps) of this call so far
    samples,    \* the most recent sizes is_file_stable sampled (kept when tracing)
    tracing,    \* samples are recorded (SpecGate)
    excel,      \* automation handles held open: [app, wb]
    processed,  \* processed_name of this run
    stages,     \* the stages this run has entered, in order
    outcome,    \* how the last run ended (running while it has not)
    errors,     \* logging.exception calls so far
    stamps,     \* processed_name of every run that reached the publish step
    dest,       \* the files of the SharePoint folder: a set of [name, run]
    sp_folder,  \* the SharePoint folder exists
    made,       \* names of the files _process has written in the watched folder
                \* since the last event for a file from outside
    self,       \* the event being handled is for a file _process wrote itself
    inflight,   \* calls of _process that have started and not yet returned
    pubs        \* artifacts published since the last event for a file from outside

tvars == <<ws, start_row, col_b, sep, calls, changed, saves, ws0, ws1>>
pvars == <<pattern, win32, now, alive, nevents, pc, cur, src, last, same, polls,
           samples, tracing, excel, processed, stages, outcome, errors, stamps, dest,
           sp_folder, made, self, inflight, pubs>>
vars  == <<tvars, pvars>>

----------------------------------------------------------------------------
(* Strings: sequences of one-character strings.                            *)

LowerLetters == <<"a","b","c","d","e","f","g","h","i","j","k","l","m",
                  "n","o","p","q","r","s","t","u","v","w","x","y","z">>
UpperLetters == <<"A","B","C","D","E","F","G","H","I","J","K","L","M",
                  "N","O","P","Q","R","S","T","U","V","W","X","Y","Z">>

ToUpper == [c \in {LowerLetters[i] : i \in 1..26} |->
               UpperLetters[CHOOSE i \in 1..26 : LowerLetters[i] = c]]
ToLower == [c \in {UpperLetters[i] : i \in 1..26} |->
               LowerLetters[CHOOSE i \in 1..26 : UpperLetters[i] = c]]

\* str.upper() on one character
UpperCh(c) == IF c \in DOMAIN ToUpper THEN ToUpper[c] ELSE c

\* str.lower() on one character (re.IGNORECASE compares case-folded)
LowerCh(c) == IF c \in DOMAIN ToLower THEN ToLower[c] ELSE c

Upper(s) == [i \in 1..Len(s) |-> UpperCh(s[i])]
Lower(s) == [i \in 1..Len(s) |-> LowerCh(s[i])]

\* whitespace as str.strip() and the regex class \s see it
IsSpace(c) == c \in {" ", "\t", "\n"}

StartsWith(s, p) == Len(s) >= Len(p) /\ SubSeq(s, 1, Len(p)) = p
EndsWith(s, p)   == Len(s) >= Len(p) /\ SubSeq(s, Len(s) - Len(p) + 1, Len(s)) = p

\* "sub in s"
Contains(s, sub) ==
    \E i \in 1..(Len(s) - Len(sub) + 1) :
        s[i] = sub[1] /\ SubSeq(s, i, i + Len(sub) - 1) = sub

\* s.find(ch) from position i on: the first index of ch (1-based), 0 when absent
RECURSIVE FindFrom(_, _, _)
FindFrom(s, ch, i) ==
    IF i > Len(s) THEN 0 ELSE IF s[i] = ch THEN i ELSE FindFrom(s, ch, i + 1)

Find(s, ch) == FindFrom(s, ch, 1)

\* str.lstrip()
RECURSIVE LStrip(_)
LStrip(s) == IF s # <<>> /\ IsSpace(Head(s)) THEN LStrip(Tail(s)) ELSE s

\* str.rstrip(): whitespace when ch = "", else the one character ch
RECURSIVE RStrip(_, _)
RStrip(s, ch) ==
    IF s # <<>> /\ (IF ch = "" THEN IsSpace(s[Len(s)]) ELSE s[Len(s)] = ch)
    THEN RStrip(SubSeq(s, 1, Len(s) - 1), ch)
    ELSE s

\* str.strip()
Strip(s) == RStrip(LStrip(s), "")

\* str(n) for a small non-negative integer
Digits == <<"0","1","2","3","4","5","6","7","8","9">>
RECURSIVE IntToStr(_)
IntToStr(n) ==
    IF n < 10 THEN <<Digits[n + 1]>>
    ELSE IntToStr(n \div 10) \o <<Digits[(n % 10) + 1]>>

----------------------------------------------------------------------------
(* parse_hyperlink_formula                                                 *)

HYPERLINK_PREFIX == <<"=","H","Y","P","E","R","L","I","N","K","(">>
QUOTE == "\""

\* mutant of IsArgSeparator: quotes are ignored when splitting
IsArgSeparator_IgnoreQuotes(inq, ch) == ch \in {",", ";"}

\* "not inq and ch in ',;'"
IsArgSeparator(inq, ch) == ~inq /\ ch \in {",", ";"}

\* the for-loop over the characters of `inside`: st = [inq, buf, parts]
RECURSIVE ScanArgs(_, _, _)
ScanArgs(inside, i, st) ==
    IF i > Len(inside) THEN st
    ELSE LET ch == inside[i] IN
         IF ch = QUOTE
         THEN ScanArgs(inside, i + 1,
                  [inq |-> ~st.inq, buf |-> Append(st.buf, ch), parts |-> st.parts])
         ELSE IF IsArgSeparator(st.inq, ch)
         THEN ScanArgs(inside, i + 1,
                  [inq |-> st.inq, buf |-> <<>>, parts |-> Append(st.parts, Strip(st.buf))])
         ELSE ScanArgs(inside, i + 1,
                  [inq |-> st.inq, buf |-> Append(st.buf, ch), parts |-> st.parts])

\* clean(t): drop one pair of surrounding double quotes
clean(t) ==
    IF StartsWith(t, <<QUOTE>>) /\ EndsWith(t, <<QUOTE>>)
    THEN SubSeq(t, 2, Len(t) - 1)
    ELSE t

\* "if buf: parts.append(buf.strip())" after the loop
FinishParts(fin) ==
    IF fin.buf # <<>> THEN Append(fin.parts, Strip(fin.buf)) ELSE fin.parts

\* url and text from the parts; the empty string stands for Python's None (the
\* caller only tests the truth value of either component)
PartsResult(parts) ==
    [url  |-> IF Len(parts) > 0 THEN clean(parts[1]) ELSE <<>>,
     text |-> IF Len(parts) > 1 THEN clean(parts[2]) ELSE <<>>]

\* inside = s[s.find("(")+1:].rstrip(")")
Inside(s) == RStrip(SubSeq(s, Find(s, "(") + 1, Len(s)), ")")

\* parse_hyperlink_formula after s = formula.strip()
ParseStripped(s) ==
    IF ~StartsWith(Upper(s), HYPERLINK_PREFIX)
    THEN [url |-> <<>>, text |-> <<>>]
    ELSE PartsResult(FinishParts(
             ScanArgs(Inside(s), 1, [inq |-> FALSE, buf |-> <<>>, parts |-> <<>>])))

\* Returns [url, text]
parse_hyperlink_formula(formula) == ParseStripped(Strip(formula))

----------------------------------------------------------------------------
(* re.search(r"https?://\S+", val, re.IGNORECASE)                          *)

HTTP_LIT   == <<"h","t","t","p">>
SCHEME_SEP == <<":","/","/">>

\* index of the first character after "http[s]://" when the pattern's literal
\* part matches at i, else 0
SchemeEnd(s, i) ==
    IF i + 3 > Len(s) \/ LowerCh(s[i]) # "h" \/ Lower(SubSeq(s, i, i + 3)) # HTTP_LIT THEN 0
    ELSE IF i + 7 <= Len(s) /\ LowerCh(s[i + 4]) = "s"
            /\ SubSeq(s, i + 5, i + 7) = SCHEME_SEP THEN i + 8
    ELSE IF i + 6 <= Len(s) /\ SubSeq(s, i + 4, i + 6) = SCHEME_SEP THEN i + 7
    ELSE 0

\* k is a position of s that holds a \S
NonSpaceAt(s, k) == k # 0 /\ k <= Len(s) /\ ~IsSpace(s[k])

\* the pattern matches at i: the literal part, then at least one \S
MatchesAt(s, i) == NonSpaceAt(s, SchemeEnd(s, i))

\* end of the greedy \S+ run that holds position k
RECURSIVE RunEnd(_, _)
RunEnd(s, k) ==
    IF k < Len(s) /\ ~IsSpace(s[k + 1]) THEN RunEnd(s, k + 1) ELSE k

\* the leftmost position >= i where the pattern matches, 0 when there is none
RECURSIVE FirstMatch(_, _)
FirstMatch(s, i) ==
    IF i > Len(s) THEN 0 ELSE IF MatchesAt(s, i) THEN i ELSE FirstMatch(s, i + 1)

\* m.group(0) of the match at i, the empty string when i = 0 (no match)
MatchGroup(s, i) ==
    IF i = 0 THEN <<>> ELSE SubSeq(s, i, RunEnd(s, SchemeEnd(s, i)))

\* m.group(0) of the leftmost match, the empty string when there is none
search_url(s) == MatchGroup(s, FirstMatch(s, 1))

----------------------------------------------------------------------------
(* transform_workbook                                                      *)

\* A cell value as openpyxl gives it: None, a number or a string.
NoneValue  == [kind |-> "none", s |-> <<>>, n |-> 0]
StrValue(s) == [kind |-> "str", s |-> s, n |-> 0]
IntValue(n) == [kind |-> "int", s |-> <<>>, n |-> n]

\* val = "" if cell.value is None else str(cell.value)
ValText(v) ==
    IF v.kind = "none" THEN <<>>
    ELSE IF v.kind = "int" THEN IntToStr(v.n)
    ELSE v.s

\* cell.hyperlink and getattr(cell.hyperlink, "target", None): a cell's hyperlink
\* is its target; the empty string stands for no hyperlink or no target.
HasHyperlinkTarget(cell) == cell.hyperlink # <<>>

\* the elif branch and the inline search: p is what parse_hyperlink_formula
\* returned for val0 (nothing when val0 is no formula)
ExtractFromText(val0, p) ==
    IF p.url # <<>>
    THEN [val |-> IF p.text # <<>> THEN p.text ELSE val0, url |-> p.url]
    ELSE [val |-> val0, url |-> search_url(val0)]

\* mutant of ExtractFrom: a url in the text is taken before the other sources
ExtractFrom_InlineFirst(cell, val0) ==
    IF search_url(val0) # <<>>
    THEN [val |-> val0, url |-> search_url(val0)]
    ELSE IF HasHyperlinkTarget(cell)
    THEN [val |-> val0, url |-> cell.hyperlink]
    ELSE ExtractFromText(val0, IF StartsWith(val0, <<"=">>)
                               THEN parse_hyperlink_formula(val0)
                               ELSE [url |-> <<>>, text |-> <<>>])

\* url discovery on val0 = str(cell.value)
ExtractFrom(cell, val0) ==
    IF HasHyperlinkTarget(cell)
    THEN [val |-> val0, url |-> cell.hyperlink]
    ELSE ExtractFromText(val0, IF StartsWith(val0, <<"=">>)
                               THEN parse_hyperlink_formula(val0)
                               ELSE [url |-> <<>>, text |-> <<>>])

\* The body of the row loop for one cell: [val, url] as they stand at the test
\* "if url and sep not in val".
ExtractLink(cell) == ExtractFrom(cell, ValText(cell.value))

\* mutant of ShouldAppend: a separator already in the text is not looked for
ShouldAppend_IgnoreSeparator(e, sp) == e.url # <<>>

\* "if url and sep not in val"
ShouldAppend(e, sp) == e.url # <<>> /\ ~Contains(e.val, sp)

\* mutant of Written: the url is put in front of the text
Written_UrlFirst(e, sp) ==
    IF ShouldAppend(e, sp) THEN e.url \o sp \o e.val ELSE e.val

\* the value written back for the link e = [val, url]
Written(e, sp) ==
    IF ShouldAppend(e, sp) THEN e.val \o sp \o e.url ELSE e.val

\* mutant of Appends: every cell with a url is counted
Appends_AnyUrl(cell, sp) == ExtractLink(cell).url # <<>>

\* the cell is rewritten with separator and url
Appends(cell, sp) == ShouldAppend(ExtractLink(cell), sp)

\* the value written back to the cell
NewText(cell, sp) == Written(ExtractLink(cell), sp)

\* mutant of LoopRows: the loop starts at the first row
LoopRows_FromFirst(sheet, sr) == 1..sheet.max_row

\* the rows the loop visits: range(start_row, max_row + 1)
LoopRows(sheet, sr) == sr..sheet.max_row

\* the column the loop visits
LoopCol(cb) == cb

\* The worksheet after the call and the value returned.
transform_workbook(sheet, sr, cb, sp) ==
    IF sheet.max_row < sr
    THEN [ws |-> sheet, changed |-> 0, saves |-> 1]
    ELSE [ws |-> [sheet EXCEPT !.cells =
                    [r \in DOMAIN sheet.cells |->
                      [c \in DOMAIN sheet.cells[r] |->
                        IF r \in LoopRows(sheet, sr) /\ c = LoopCol(cb)
                        THEN [value     |-> StrValue(NewText(sheet.cells[r][c], sp)),
                              hyperlink |-> sheet.cells[r][c].hyperlink]
                        ELSE sheet.cells[r][c]]]],
          changed |-> Cardinality({r \in LoopRows(sheet, sr) :
                                      Appends(sheet.cells[r][cb], sp)}),
          saves |-> 1]

----------------------------------------------------------------------------
(* The watcher: names, patterns, clock                                     *)

MAX_FILE_AGE_HOURS == 12
STABLE_SECS        == 5      \* is_file_stable(p, 5)

MaxEvents == 2      \* events delivered to the handler
MaxPolls  == 7      \* passes of the loop of is_file_stable followed in one call

DEFAULT_WATCH_GLOB == <<"E","T","S","A","-","T","S","A","-","*",".","x","l","s">>
ANY_EXT_GLOB       == <<"E","T","S","A","-","T","S","A","-","*">>

\* the configurations followed: [pattern, win32]
Configs == {[pattern |-> DEFAULT_WATCH_GLOB, win32 |-> TRUE],
            [pattern |-> DEFAULT_WATCH_GLOB, win32 |-> FALSE],
            [pattern |-> ANY_EXT_GLOB, win32 |-> TRUE]}

NAME_XLS   == <<"E","T","S","A","-","T","S","A","-","1",".","x","l","s">>
NAME_XLSX  == <<"E","T","S","A","-","T","S","A","-","3",".","x","l","s","x">>
NAME_CSV   == <<"E","T","S","A","-","T","S","A","-","4",".","c","s","v">>
NAME_OTHER == <<"n","o","t","e","s",".","x","l","s">>
Names == {NAME_XLS, NAME_XLSX, NAME_CSV, NAME_OTHER}

EXT_XLS  == <<".","x","l","s">>
EXT_XLSX == <<".","x","l","s","x">>

Sizes  == {0, 1, 2}     \* st_size values a sample can return
Delays == {0, 1}        \* seconds between the handler's return and the next event
Ages  == {MAX_FILE_AGE_HOURS * 3600, MAX_FILE_AGE_HOURS * 3600 + 1, 13 * 3600}
JustWritten == 1 - 1    \* age of a file written within the second
StartClock == 13 * 3600 + 59 * 60 + 55

\* Path(name).match(pattern) for one path component, as on Windows (case is
\* folded): "*" matches any run of characters.
RECURSIVE GlobMatch(_, _)
GlobMatch(name, pat) ==
    IF pat = <<>> THEN name = <<>>
    ELSE IF Head(pat) = "*"
         THEN GlobMatch(name, Tail(pat)) \/ (name # <<>> /\ GlobMatch(Tail(name), pat))
         ELSE /\ name # <<>>
              /\ LowerCh(Head(name)) = LowerCh(Head(pat))
              /\ GlobMatch(Tail(name), Tail(pat))

\* mutant of _matches: anything may follow the pattern ("ETSA-TSA-*.xls*")
_matches_OpenEnded(name, pat) == GlobMatch(name, pat \o <<"*">>)

_matches(name, pat) == GlobMatch(name, pat)

\* position of the last "." of a name, 0 when there is none
RECURSIVE LastDot(_, _)
LastDot(name, i) ==
    IF i = 0 THEN 0 ELSE IF name[i] = "." THEN i ELSE LastDot(name, i - 1)

\* Path.suffix
Suffix(name) ==
    LET d == LastDot(name, Len(name)) IN
    IF d <= 1 THEN <<>> ELSE SubSeq(name, d, Len(name))

\* Path.with_suffix(ext)
with_suffix(name, ext) ==
    LET d == LastDot(name, Len(name)) IN
    (IF d <= 1 THEN name ELSE SubSeq(name, 1, d - 1)) \o ext

\* n as at least w digits, zero-padded
RECURSIVE Pad(_, _)
Pad(s, w) == IF Len(s) >= w THEN s ELSE Pad(<<"0">> \o s, w)

\* datetime.now().strftime("%Y%m%d_%H%M%S"); the calendar date is written as
\* the day number (eight digits)
strftime(t) ==
    Pad(IntToStr(t \div 86400), 8) \o <<"_">>
      \o Pad(IntToStr((t \div 3600) % 24), 2)
      \o Pad(IntToStr((t \div 60) % 60), 2)
      \o Pad(IntToStr(t % 60), 2)

\* processed_name = f"Processed_{stamp}.xlsx"
processed_name(t) == <<"P","r","o","c","e","s","s","e","d","_">> \o strftime(t) \o EXT_XLSX

\* mutant of is_file_fresh_enough: timedelta(days=max_hours)
is_file_fresh_enough_Days(exists, age, max_hours) ==
    IF ~exists THEN FALSE ELSE age <= max_hours * 86400

\* is_file_fresh_enough: False when stat fails, else age <= timedelta(hours=max_hours)
is_file_fresh_enough(exists, age, max_hours) ==
    IF ~exists THEN FALSE ELSE age <= max_hours * 3600

\* mutant of is_file_stable_step: a changed size does not restart the count
is_file_stable_step_NoRestart(l, sm, size) ==
    IF size = l /\ size > 0 THEN [last |-> l, same |-> sm + 1]
                            ELSE [last |-> size, same |-> sm]

\* One iteration of the loop of is_file_stable on an existing file of the given
\* size: the new [last, same].
is_file_stable_step(l, sm, size) ==
    IF size = l /\ size > 0 THEN [last |-> l, same |-> sm + 1]
                            ELSE [last |-> size, same |-> 0]

\* "while same < stable_secs": the loop goes on
StillPolling(sm, stable_secs) == sm < stable_secs

\* mutant of SleepSeconds: the loop does not sleep
SleepSeconds_None == 1 - 1

\* time.sleep(1) in the loop: seconds the clock moves
SleepSeconds == 1

\* excel_xls_to_xlsx with the first call that raises (none: it returns): the
\* handles left open when the function is left, whether it returned, and
\* whether SaveAs wrote the .xlsx.
excel_xls_to_xlsx(fail_at) ==
    IF fail_at = "dispatch"
    THEN [app |-> FALSE, wb |-> FALSE, ok |-> FALSE, saved |-> FALSE]
    ELSE IF fail_at = "open"
    THEN [app |-> TRUE, wb |-> FALSE, ok |-> FALSE, saved |-> FALSE]
    ELSE IF fail_at = "saveas"
    THEN [app |-> TRUE, wb |-> TRUE, ok |-> FALSE, saved |-> FALSE]
    ELSE IF fail_at = "close"
    THEN [app |-> TRUE, wb |-> TRUE, ok |-> FALSE, saved |-> TRUE]
    ELSE [app |-> FALSE, wb |-> FALSE, ok |-> TRUE, saved |-> TRUE]

FailPoints == {"none", "dispatch", "open", "saveas", "close"}

\* mutant of ExceptClause: the exception is raised again out of the handler
ExceptClause_Reraise == FALSE

\* the except clause of _process: logs, and the handler returns; the value is
\* whether the observer thread survives
ExceptClause == TRUE

\* sp_folder.mkdir(parents=True, exist_ok=True): the folder exists afterwards
mkdir(exists) == TRUE

\* mutant of copy_to_sharepoint: a file already there is kept beside the new one
copy_to_sharepoint_Merge(folder, name, run) ==
    folder \cup {[name |-> name, run |-> run]}

\* copy_to_sharepoint: shutil.copy2 into the folder under the file's own name
copy_to_sharepoint(folder, name, run) ==
    {d \in folder : d.name # name} \cup {[name |-> name, run |-> run]}

NoFile == [name |-> <<>>, age |-> 0]

\* a run ends without an exception: _process returns
Return(how) ==
    /\ pc' = "idle"
    /\ outcome' = how
    /\ UNCHANGED <<alive, errors>>

\* a stage raises: the except clause of _process
Raise ==
    /\ pc' = "idle"
    /\ outcome' = "error"
    /\ errors' = errors + 1
    /\ alive' = ExceptClause

\* the run goes on to the next stage
Goto(stage) ==
    /\ pc' = stage
    /\ UNCHANGED <<outcome, alive, errors>>

\* mutant of HandlerFree: every event gets a thread of its own
HandlerFree_ThreadPerEvent == TRUE

\* the observer's one thread calls on_created / on_modified, which call
\* _process and return when it has returned: the thread takes the next event
\* when no call is running
HandlerFree == pc = "idle"

\* a step of _process: the call is over when it has left the pipeline
Leave == inflight' = IF pc' = "idle" THEN inflight - 1 ELSE inflight

\* on_created / on_modified: _process up to the call of is_file_stable
on_event ==
    /\ HandlerFree /\ alive
    /\ nevents < (IF tracing THEN 1 ELSE MaxEvents)
    /\ \E delay \in Delays : now' = now + delay
    /\ \E name \in Names \cup made, isdir \in BOOLEAN, exists \in BOOLEAN,
          age \in Ages \cup {JustWritten} :
         /\ (isdir => exists)
         \* a file _process wrote is there, and new, when its event arrives
         /\ IF name \in made THEN ~isdir /\ exists /\ age = JustWritten
                              ELSE age \in Ages
         /\ self' = (name \in made)
         /\ pubs' = IF name \in made THEN pubs ELSE 0
         /\ made' = IF name \in made THEN made ELSE {}
         /\ nevents' = nevents + 1
         /\ processed' = <<>>
         /\ cur' = [name |-> name, age |-> age]
         /\ src' = name
         /\ last' = -1 /\ same' = 0 /\ polls' = 0 /\ samples' = <<>>
         /\ IF isdir THEN Return("directory") /\ stages' = <<>>
            ELSE IF ~_matches(name, pattern) THEN Return("no_match") /\ stages' = <<>>
            ELSE IF ~is_file_fresh_enough(exists, age, MAX_FILE_AGE_HOURS)
                 THEN Return("stale") /\ stages' = <<>>
            ELSE /\ pc' = "poll" /\ outcome' = "running"
                 /\ stages' = <<"poll">>
                 /\ UNCHANGED <<alive, errors>>
    /\ inflight' = IF pc' = "idle" THEN inflight ELSE inflight + 1
    /\ UNCHANGED <<pattern, win32, tracing, excel, stamps, dest, sp_folder>>
    /\ UNCHANGED tvars

\* is_file_stable: one pass of the loop body, with what the file system shows
\* at that moment (the file may be written or removed between passes), and the
\* loop test that follows it
PollPass(counted) ==
    /\ pc = "poll"
    /\ \E exists \in BOOLEAN, stat_fails \in BOOLEAN, size \in Sizes :
         IF ~exists
         THEN /\ Return("unstable")
              /\ UNCHANGED <<now, last, same, polls, samples>>
         ELSE IF stat_fails
         THEN /\ Raise
              /\ UNCHANGED <<now, last, same, polls, samples>>
         ELSE LET st == is_file_stable_step(last, same, size) IN
              /\ last' = st.last
              /\ same' = st.same
              /\ polls' = polls + counted
              /\ samples' = IF ~tracing THEN samples
                            ELSE IF Len(samples) <= STABLE_SECS THEN Append(samples, size)
                            ELSE Append(Tail(samples), size)
              /\ now' = now + counted * SleepSeconds
              /\ IF StillPolling(st.same, STABLE_SECS) THEN Goto("poll")
                                                       ELSE Goto("normalize")
    /\ Leave
    /\ UNCHANGED <<pattern, win32, nevents, cur, src, tracing, excel, processed,
                   stages, stamps, dest, sp_folder, made, self, pubs>>
    /\ UNCHANGED tvars

\* a pass of the loop among the first MaxPolls of the call
poll == polls < MaxPolls /\ PollPass(1)

\* a later pass of the same loop: it goes on as before, the model no longer
\* counts the passes nor the seconds slept
poll_on == polls = MaxPolls /\ PollPass(0)

\* mutant of Unsupported: every extension is let through to the transform
Unsupported_Never(suffix) == FALSE

\* "if src.suffix.lower() != '.xlsx'": the run stops here
Unsupported(suffix) == Lower(suffix) # EXT_XLSX

\* _process from "src = p" to the extension test: the conversion of an .xls
normalize ==
    /\ pc = "normalize"
    /\ IF Lower(Suffix(src)) = EXT_XLS
       THEN IF ~win32
            THEN /\ Return("no_excel")
                 /\ UNCHANGED <<src, excel, stages, made>>
            ELSE \E fail_at \in FailPoints :
                   LET r == excel_xls_to_xlsx(fail_at) IN
                   /\ excel' = [app |-> r.app, wb |-> r.wb]
                   /\ stages' = Append(stages, "convert")
                   /\ made' = IF r.saved THEN made \cup {with_suffix(src, EXT_XLSX)}
                                         ELSE made
                   /\ IF r.ok THEN /\ src' = with_suffix(src, EXT_XLSX)
                                   /\ Goto("transform")
                              ELSE /\ Raise
                                   /\ UNCHANGED src
       ELSE /\ UNCHANGED <<src, excel, stages, made>>
            /\ IF Unsupported(Suffix(src)) THEN Return("unsupported")
                                                ELSE Goto("transform")
    /\ Leave
    /\ UNCHANGED <<pattern, win32, now, nevents, cur, last, same, polls, samples,
                   tracing, processed, stamps, dest, sp_folder, self, pubs>>
    /\ UNCHANGED tvars

\* transform_workbook on src (the worksheet itself is followed under SpecT)
transform ==
    /\ pc = "transform"
    /\ stages' = Append(stages, "transform")
    /\ \E raises \in BOOLEAN :
         IF raises THEN Raise /\ UNCHANGED made
                   ELSE Goto("stamp") /\ made' = made \cup {src}
    /\ Leave
    /\ UNCHANGED <<pattern, win32, now, nevents, cur, src, last, same, polls, samples,
                   tracing, excel, processed, stamps, dest, sp_folder, self, pubs>>
    /\ UNCHANGED tvars

\* the stamped copy beside the source
stamp_copy ==
    /\ pc = "stamp"
    /\ stages' = Append(stages, "copy")
    /\ \E raises \in BOOLEAN :
         IF raises
         THEN Raise /\ UNCHANGED <<processed, stamps, made>>
         ELSE /\ processed' = processed_name(now)
              /\ stamps' = Append(stamps, processed_name(now))
              /\ made' = made \cup {processed_name(now)}
              /\ Goto("publish")
    /\ Leave
    /\ UNCHANGED <<pattern, win32, now, nevents, cur, src, last, same, polls, samples,
                   tracing, excel, dest, sp_folder, self, pubs>>
    /\ UNCHANGED tvars

\* copy_to_sharepoint and the return of _process
publish ==
    /\ pc = "publish"
    /\ stages' = Append(stages, "publish")
    /\ \E fail_at \in {"none", "mkdir", "copy2"} :
         IF fail_at = "mkdir"
         THEN Raise /\ UNCHANGED <<dest, sp_folder, pubs>>
         ELSE IF fail_at = "copy2"
         THEN Raise /\ sp_folder' = mkdir(sp_folder) /\ UNCHANGED <<dest, pubs>>
         ELSE /\ sp_folder' = mkdir(sp_folder)
              /\ dest' = copy_to_sharepoint(dest, processed, nevents)
              /\ pubs' = pubs + 1
              /\ Return("published")
    /\ Leave
    /\ UNCHANGED <<pattern, win32, now, nevents, cur, src, last, same, polls, samples,
                   tracing, excel, processed, stamps, made, self>>
    /\ UNCHANGED tvars

\* the handler before any event
HandlerIdle ==
    /\ now = StartClock
    /\ alive = TRUE
    /\ nevents = 0
    /\ pc = "idle"
    /\ cur = NoFile
    /\ src = <<>>
    /\ last = -1 /\ same = 0 /\ polls = 0 /\ samples = <<>>
    /\ excel = [app |-> FALSE, wb |-> FALSE]
    /\ processed = <<>>
    /\ stages = <<>>
    /\ outcome = "none"
    /\ errors = 0
    /\ stamps = <<>>
    /\ made = {}
    /\ self = FALSE
    /\ inflight = 0
    /\ pubs = 0

\* the watcher before any event: ensure_config has seen the SharePoint folder
WatcherIdle ==
    /\ HandlerIdle
    /\ sp_folder = TRUE
    /\ dest = {}

----------------------------------------------------------------------------
(* Worksheets the transform is run on                                      *)

MaxRow   == 2      \* rows of the largest worksheet
MaxCol   == 2      \* columns of a worksheet
MaxCalls == 2      \* transform_workbook calls on one worksheet

DEFAULT_SEPARATOR == <<" ","#","#","#"," ">>
PIPE_SEPARATOR    == <<" ","|"," ">>
Separators == {DEFAULT_SEPARATOR, PIPE_SEPARATOR}

URL_XY     == <<"h","t","t","p","s",":","/","/","x","/","y">>
URL_COMMA  == <<"h","t","t","p","s",":","/","/","x","/","a",",","b">>
URL_SEMI   == <<"h","t","t","p","s",":","/","/","x","/","a",";","b">>
URL_NATIVE == <<"h","t","t","p","s",":","/","/","n","/","z">>
TXT_LABEL  == <<"L","a","b","e","l">>
TXT_COMMA  == <<"D","o","c",","," ","r","e","v"," ","B">>
TXT_SEMI   == <<"D","o","c",";","B">>
TXT_QUOTED == <<"a","\"","\"",",","b">>
TXT_MARKED == <<"a"," ","#","#","#"," ","b">>
TXT_INLINE == <<"s","e","e"," ","h","t","t","p","s",":","/","/","x","/","y"," ","f","o","r"," ","d","e","t","a","i","l","s">>
TXT_UPPER  == <<"a","t"," ","H","T","T","P",":","/","/","X","/","Y"," ","n","o","w">>
TXT_DONE   == TXT_LABEL \o DEFAULT_SEPARATOR \o URL_XY

Targets == {URL_XY, URL_COMMA, URL_SEMI, <<>>}
Labels  == {TXT_LABEL, TXT_COMMA, TXT_SEMI, TXT_QUOTED, TXT_MARKED, <<>>}
Delims  == {<<",", " ">>, <<";">>}

\* =HYPERLINK("<target>"<delim>"<label>")
Formula2(target, delim, label) ==
    HYPERLINK_PREFIX \o <<QUOTE>> \o target \o <<QUOTE>> \o delim
                     \o <<QUOTE>> \o label \o <<QUOTE>> \o <<")">>

\* =HYPERLINK("<target>")
Formula1(target) ==
    HYPERLINK_PREFIX \o <<QUOTE>> \o target \o <<QUOTE>> \o <<")">>

\* =T("see https://x/y for details"): a formula that is no HYPERLINK formula
FORMULA_OTHER == <<"=","T","(",QUOTE>> \o TXT_INLINE \o <<QUOTE,")">>

\* =HYPERLINK("","see https://x/y for details"): no first argument to recover
FORMULA_NOURL == Formula2(<<>>, <<",">>, TXT_INLINE)

\* =HYPERLINK("#Sheet2!A1","Label"): a place in the document
URL_ANCHOR     == <<"#","S","h","e","e","t","2","!","A","1">>
FORMULA_ANCHOR == Formula2(URL_ANCHOR, <<",">>, TXT_LABEL)

\* =HYPERLINK(A1,"Label"): the target is taken from another cell
CELL_REF    == <<"A","1">>
FORMULA_REF == HYPERLINK_PREFIX \o CELL_REF \o <<",",QUOTE>> \o TXT_LABEL \o <<QUOTE,")">>

Cell(v, h) == [value |-> v, hyperlink |-> h]

PlainValues ==
    {NoneValue, IntValue(17)} \cup
    {StrValue(t) : t \in {<<>>, <<" ">>, TXT_LABEL, TXT_INLINE, TXT_UPPER, TXT_DONE}}

FormulaValues ==
    {StrValue(Formula2(t, d, l)) : t \in Targets, d \in Delims, l \in Labels}
    \cup {StrValue(Formula1(t)) : t \in Targets}
    \cup {StrValue(Lower(Formula2(URL_XY, <<",">>, TXT_LABEL)))}
    \cup {StrValue(f) : f \in {FORMULA_OTHER, FORMULA_NOURL, FORMULA_ANCHOR, FORMULA_REF}}

LinkedValues ==
    {NoneValue, StrValue(TXT_LABEL), StrValue(TXT_INLINE), StrValue(TXT_DONE),
     StrValue(Formula2(URL_XY, <<",">>, TXT_LABEL))}

Cells ==
    {Cell(v, <<>>) : v \in PlainValues \cup FormulaValues}
    \cup {Cell(v, URL_NATIVE) : v \in LinkedValues}

\* every other cell of a worksheet holds this one (it would change if the
\* transform visited it)
Filler == Cell(StrValue(TXT_INLINE), <<>>)

\* a worksheet of n rows with cell x at (r0, c0)
Sheet(n, r0, c0, x) ==
    [max_row |-> n,
     cells   |-> [r \in 1..n |-> [c \in 1..MaxCol |->
                     IF r = r0 /\ c = c0 THEN x ELSE Filler]]]

InitT ==
    /\ \E n \in 1..MaxRow : \E r0 \in 1..n : \E c0 \in 1..MaxCol : \E x \in Cells :
           ws = Sheet(n, r0, c0, x)
    /\ start_row \in 1..(MaxRow + 1)
    /\ col_b \in 1..MaxCol
    /\ sep \in Separators
    /\ calls = 0
    /\ changed = 0
    /\ saves = 0
    /\ ws0 = ws
    /\ ws1 = ws
    /\ pattern = DEFAULT_WATCH_GLOB /\ win32 = TRUE /\ tracing = FALSE
    /\ WatcherIdle

\* one call of transform_workbook on the saved workbook
Transform ==
    /\ calls < MaxCalls
    /\ LET res == transform_workbook(ws, start_row, col_b, sep) IN
         /\ ws' = res.ws
         /\ changed' = res.changed
         /\ saves' = saves + res.saves
         /\ ws1' = IF calls = 0 THEN res.ws ELSE ws1
    /\ calls' = calls + 1
    /\ UNCHANGED <<start_row, col_b, sep, ws0>>
    /\ UNCHANGED pvars

NextT == Transform

SpecT == InitT /\ [][NextT]_vars

\* the worksheet side stands still under the watcher's specifications
NoSheet ==
    /\ ws = Sheet(1, 1, 1, Filler)
    /\ start_row = 1 /\ col_b = 1 /\ sep = DEFAULT_SEPARATOR
    /\ calls = 0 /\ changed = 0 /\ saves = 0
    /\ ws0 = ws /\ ws1 = ws

Next ==
    \/ on_event
    \/ poll
    \/ normalize
    \/ transform
    \/ stamp_copy
    \/ publish

\* the watcher, several events
Init ==
    /\ NoSheet
    /\ \E c \in Configs : pattern = c.pattern /\ win32 = c.win32
    /\ tracing = FALSE
    /\ WatcherIdle

Spec == Init /\ [][Next]_vars

\* the watcher, with the sizes sampled by is_file_stable recorded
InitGate ==
    /\ NoSheet
    /\ \E c \in Configs : pattern = c.pattern /\ win32 = c.win32
    /\ tracing = TRUE
    /\ WatcherIdle

SpecGate == InitGate /\ [][Next]_vars

\* the watcher with every pass of is_file_stable followed
NextLive == Next \/ poll_on

\* the handler's thread keeps running: a call of _process that can take a step
\* takes it (the events themselves come when the file system sends them)
HandlerRuns ==
    WF_vars(poll \/ poll_on \/ normalize \/ transform \/ stamp_copy \/ publish)

SpecLive == Init /\ [][NextLive]_vars /\ HandlerRuns

MaxPublishes == 3   \* copy_to_sharepoint calls on one destination folder

\* names an artifact can carry: four stamps one second apart
PubNames == {processed_name(StartClock + d) : d \in 0..3}

\* the destination as a call can find it: absent, empty, or holding a file
\* left there earlier (run 0) under one of the names
Folders ==
    {[exists |-> FALSE, files |-> {}], [exists |-> TRUE, files |-> {}]}
    \cup {[exists |-> TRUE, files |-> {[name |-> n, run |-> 0]}] : n \in PubNames}

InitPub ==
    /\ NoSheet
    /\ pattern = DEFAULT_WATCH_GLOB /\ win32 = TRUE /\ tracing = FALSE
    /\ HandlerIdle
    /\ \E f \in Folders : sp_folder = f.exists /\ dest = f.files

\* one call copy_to_sharepoint(processed_path, sp_folder) that returns; the
\* artifact's content is told apart by the number of the call
PublishCall ==
    /\ nevents < MaxPublishes
    /\ \E name \in PubNames :
         /\ processed' = name
         /\ nevents' = nevents + 1
         /\ sp_folder' = mkdir(sp_folder)
         /\ dest' = copy_to_sharepoint(dest, name, nevents + 1)
    /\ UNCHANGED <<pattern, win32, now, alive, pc, cur, src, last, same, polls,
                   samples, tracing, excel, stages, outcome, errors, stamps,
                   made, self, inflight, pubs>>
    /\ UNCHANGED tvars

NextPub == PublishCall

SpecPub == InitPub /\ [][NextPub]_vars

----------------------------------------------------------------------------
(* Properties of transform_workbook (checked under SpecT)                  *)

\* the rows of the worksheet as it was given that lie at or after the start row
RowsInScope == {r \in 1..ws0.max_row : r >= start_row}

\* the target cell of row r before the first call / its value after it
CellBefore(r) == ws0.cells[r][col_b]
ValueAfter(r) == ws1.cells[r][col_b].value

\* The url a cell offers, by the three sources in their order, and the text
\* it goes with (the friendly text of a hyperlink formula when it has one).
FormulaParts(cell) ==
    IF StartsWith(ValText(cell.value), <<"=">>)
    THEN parse_hyperlink_formula(ValText(cell.value))
    ELSE [url |-> <<>>, text |-> <<>>]

DiscoverableUrl(cell) ==
    IF cell.hyperlink # <<>> THEN cell.hyperlink
    ELSE IF FormulaParts(cell).url # <<>> THEN FormulaParts(cell).url
    ELSE search_url(ValText(cell.value))

CellText(cell) ==
    IF cell.hyperlink = <<>> /\ FormulaParts(cell).url # <<>>
                             /\ FormulaParts(cell).text # <<>>
    THEN FormulaParts(cell).text
    ELSE ValText(cell.value)

\* C1 (as claimed): idempotence. After the second call in a row every cell
\* holds what it held after the first call, and the second call returns 0.
C1_Idempotent ==
    calls = 2 => (ws = ws1 /\ changed = 0)

\* C2: a target cell at or after the start row whose text t has no separator
\* and which offers a url u holds exactly t + sep + u after the call; inline
\* text "see https://x/y for details" keeps its text and gets sep + the url.
C2_AppendsTextSepUrl ==
    calls >= 1 =>
      \A r \in RowsInScope :
        /\ (DiscoverableUrl(CellBefore(r)) # <<>> /\ ~Contains(CellText(CellBefore(r)), sep))
             => ValueAfter(r) =
                  StrValue(CellText(CellBefore(r)) \o sep \o DiscoverableUrl(CellBefore(r)))
        /\ CellBefore(r) = Cell(StrValue(TXT_INLINE), <<>>)
             => ValueAfter(r) = StrValue(TXT_INLINE \o sep \o URL_XY)

C2_Witness ==
    /\ calls >= 1
    /\ \E r \in RowsInScope :
         /\ CellBefore(r) = Cell(StrValue(TXT_LABEL), URL_NATIVE)
         /\ ValueAfter(r) = StrValue(TXT_LABEL \o sep \o URL_NATIVE)
    /\ \E r \in RowsInScope :
         /\ CellBefore(r) = Cell(StrValue(TXT_INLINE), <<>>)
         /\ ValueAfter(r) = StrValue(TXT_INLINE \o sep \o URL_XY)

\* the target cell of row r holds =HYPERLINK("t"<d>"l") and no native hyperlink
IsFormula2(r, t, d, l) == CellBefore(r) = Cell(StrValue(Formula2(t, d, l)), <<>>)

\* C3 (as claimed): for every (non-empty) target and friendly text, the formula
\* parses to (target, friendlyText) and the cell becomes friendlyText + sep +
\* target.
C3_AllTargetsAndLabels ==
    calls >= 1 =>
      \A r \in RowsInScope : \A t \in Targets : \A d \in Delims : \A l \in Labels :
        (IsFormula2(r, t, d, l) /\ t # <<>> /\ l # <<>>) =>
          /\ parse_hyperlink_formula(Formula2(t, d, l)) = [url |-> t, text |-> l]
          /\ ValueAfter(r) = StrValue(l \o sep \o t)

\* C3 (amended): for every non-empty target and non-empty friendly text
\* (commas and semicolons included) the formula parses to (target,
\* friendlyText); the cell becomes friendlyText + sep + target when the
\* friendly text does not already contain the separator, and the friendly
\* text alone when it does.
C3_QuotedArgsParsed ==
    calls >= 1 =>
      \A r \in RowsInScope : \A t \in Targets : \A d \in Delims : \A l \in Labels :
        (IsFormula2(r, t, d, l) /\ t # <<>> /\ l # <<>>) =>
          /\ parse_hyperlink_formula(Formula2(t, d, l)) = [url |-> t, text |-> l]
          /\ ValueAfter(r) = IF Contains(l, sep) THEN StrValue(l)
                                                 ELSE StrValue(l \o sep \o t)

C3_Witness ==
    /\ calls >= 1
    /\ \E r \in RowsInScope : \E d \in Delims :
         /\ IsFormula2(r, URL_COMMA, d, TXT_COMMA)
         /\ ValueAfter(r) = StrValue(TXT_COMMA \o sep \o URL_COMMA)

\* C4: no cell in a row before the start row, and no cell outside the target
\* column, is changed by the call; the sheet keeps its rows.
C4_FrameRowsAndColumns ==
    calls >= 1 =>
      /\ ws.max_row = ws0.max_row
      /\ \A r \in 1..ws0.max_row : \A c \in 1..MaxCol :
           (r < start_row \/ c # col_b) => ws.cells[r][c] = ws0.cells[r][c]

C4_Witness ==
    /\ calls >= 1
    /\ 1 < start_row /\ start_row <= ws0.max_row
    /\ ws.cells[start_row][col_b] # ws0.cells[start_row][col_b]
    /\ ws.cells[start_row - 1] = ws0.cells[start_row - 1]

----------------------------------------------------------------------------
(* Properties of the watcher                                               *)

\* the stages after the readiness gate
AfterGate == {"normalize", "transform", "stamp", "publish"}

\* the last n sizes sampled
LastSamples(n) == SubSeq(samples, Len(samples) - n + 1, Len(samples))

\* C5: an event on a file modified more than MAX_FILE_AGE_HOURS ago enters no
\* stage (no poll, conversion, transform, copy or publish) and leaves nothing
\* of its run in the destination.
C5_StaleNeverProcessed ==
    (nevents > 0 /\ cur.age > MAX_FILE_AGE_HOURS * 3600) =>
        /\ pc = "idle"
        /\ stages = <<>>
        /\ \A d \in dest : d.run # nevents

C5_Witness ==
    /\ cur = [name |-> NAME_XLS, age |-> 13 * 3600]
    /\ outcome = "stale"
    /\ nevents = 2 /\ dest # {}

\* C6 (SpecGate): a file is past the gate only when the last STABLE_SECS sizes
\* sampled were all the same and non-zero; and while polling, a sample that is
\* zero or differs from the one before leaves the count at zero.
C6_StableBeforeProcessing ==
    /\ pc \in AfterGate =>
         /\ Len(samples) >= STABLE_SECS
         /\ \A i \in 1..STABLE_SECS :
              /\ LastSamples(STABLE_SECS)[i] > 0
              /\ LastSamples(STABLE_SECS)[i] = LastSamples(STABLE_SECS)[1]
    /\ (pc = "poll" /\ Len(samples) >= 2
          /\ (LastSamples(2)[2] = 0 \/ LastSamples(2)[2] # LastSamples(2)[1]))
         => same = 0

\* accepted after a restart: more polls than an unchanged file needs
C6_Witness ==
    /\ pc = "normalize"
    /\ polls > STABLE_SECS + 1
    /\ same = STABLE_SECS
    /\ \A i \in 1..Len(samples) : samples[i] = 2

\* C7 (as claimed, SpecGate): is_file_stable makes at most STABLE_SECS
\* one-second polls before it returns.
C7_BoundedStall ==
    polls <= STABLE_SECS

\* C8: an exception in any stage ends the run in the handler: the observer
\* thread stays alive and the handler is back at idle, ready for the next
\* event.
C8_ExceptionsSwallowed ==
    /\ alive
    /\ outcome = "error" => pc = "idle"

C8_Witness ==
    /\ errors >= 1
    /\ nevents = 2
    /\ outcome = "published"

\* C9 (as claimed): once excel_xls_to_xlsx is left, by return or by exception,
\* no workbook and no Excel application is left open.
C9_HandlesReleased ==
    excel = [app |-> FALSE, wb |-> FALSE]

\* C10: the runs that reach the publish step use pairwise different stamped
\* names, and every one of them that published still has its own file in the
\* destination.
C10_StampsDistinct ==
    /\ \A i, j \in 1..Len(stamps) : i # j => stamps[i] # stamps[j]
    /\ \A d \in dest : \E i \in 1..Len(stamps) : stamps[i] = d.name
    /\ \A d, e \in dest : d.name = e.name => d = e

C10_Witness ==
    /\ Len(stamps) = 2
    /\ Cardinality(dest) = 2
    /\ Cardinality({d.run : d \in dest}) = 2

----------------------------------------------------------------------------
(* Properties of copy_to_sharepoint (checked under SpecPub)                *)

\* the files of folder f that carry the name n
Named(f, n) == {d \in f : d.name = n}

\* C11: a call of copy_to_sharepoint leaves the folder existing and holding
\* exactly one file under the artifact's name, with the new artifact's content
\* (a file that was there under that name is replaced, not merged); every file
\* under another name stays as it was and none appears, so an artifact with a
\* name not yet in the folder adds one file to it.
C11_LastWriteWins ==
    [][nevents' = nevents + 1 =>
         /\ sp_folder'
         /\ Named(dest', processed') = {[name |-> processed', run |-> nevents']}
         /\ \A n \in PubNames \ {processed'} : Named(dest', n) = Named(dest, n)
         /\ Cardinality(dest') =
              Cardinality(dest) + (IF Named(dest, processed') = {} THEN 1 ELSE 0)]_vars

\* two artifacts with different names lie side by side, the second call having
\* replaced a file of its name that was in the folder before
C11_Witness ==
    /\ nevents = 3
    /\ Cardinality(dest) = 2
    /\ {d.run : d \in dest} = {1, 3}

----------------------------------------------------------------------------
(* Properties of the watch loop (checked under Spec)                       *)

\* C12: at most one call of _process is between its start and its return (or
\* failure) at any time, whichever files the events are for; a call is in
\* flight exactly while its pipeline stands at one of its stages, so no two
\* conversions overlap.
C12_SingleFlight ==
    /\ inflight <= 1
    /\ (inflight = 1) = (pc # "idle")
    /\ (inflight = 1) = (outcome = "running")

\* a second event is in its conversion stage after the first event's run
\* has published and returned
C12_Witness ==
    /\ nevents = 2 /\ inflight = 1 /\ pc = "normalize"
    /\ \E d \in dest : d.run = 1

\* C13: whenever an event has moved the loop from Idle to Processing, the
\* pipeline runs to completion or failure and the loop is Idle again later on,
\* whatever the file does meanwhile (checked under SpecLive).
C13_ReturnsToIdle == (pc # "idle") ~> (pc = "idle")

\* s is an initial part of t
IsPrefix(s, t) == Len(s) <= Len(t) /\ SubSeq(t, 1, Len(s)) = s

\* the stages of a whole run on the file called name, in the pipeline's order
FullStages(name) ==
    IF Lower(Suffix(name)) = EXT_XLS
    THEN <<"poll", "convert", "transform", "copy", "publish">>
    ELSE <<"poll", "transform", "copy", "publish">>

\* the stages a run has entered when it ends the way `how`
StagesAtEnd(how, name) ==
    IF how \in {"directory", "no_match", "stale"} THEN {<<>>}
    ELSE IF how \in {"unstable", "no_excel", "unsupported"} THEN {<<"poll">>}
    ELSE IF how = "published" THEN {FullStages(name)}
    ELSE {SubSeq(FullStages(name), 1, n) : n \in 1..Len(FullStages(name))}

\* C14: the stages of one event's run are entered in the order gate,
\* conversion (for an .xls), transform, copy, publish; the transform is entered
\* only for a file that is no directory, matches the pattern, is fresh and was
\* found stable, and whose name ends in .xlsx (after a conversion that
\* returned, for an .xls); a run that a stage rejected or that failed has
\* entered no later stage; and the publish folder holds a file of this event
\* only when its run went through every stage and returned.
C14_StagesInOrder ==
    nevents > 0 =>
      /\ IsPrefix(stages, FullStages(cur.name))
      /\ Len(stages) > 0 =>
            /\ _matches(cur.name, pattern)
            /\ cur.age <= MAX_FILE_AGE_HOURS * 3600
      /\ (\E i \in 1..Len(stages) : stages[i] = "transform") =>
            /\ same = STABLE_SECS
            /\ Lower(Suffix(src)) = EXT_XLSX
            /\ Lower(Suffix(cur.name)) = EXT_XLS =>
                  win32 /\ src = with_suffix(cur.name, EXT_XLSX)
      /\ outcome # "running" => stages \in StagesAtEnd(outcome, cur.name)
      /\ outcome = "running" => Len(stages) > 0 /\ pc # "idle"
      /\ (\E d \in dest : d.run = nevents) =>
            /\ outcome = "published"
            /\ \A d \in dest : d.run = nevents => d.name = processed

\* the second event's run failed in the conversion: it stopped there, and the
\* publish folder holds the first event's artifact only
C14_Witness ==
    /\ nevents = 2 /\ outcome = "error"
    /\ stages = <<"poll", "convert">>
    /\ Cardinality(dest) = 1 /\ \A d \in dest : d.run = 1

----------------------------------------------------------------------------
(* Further properties of transform_workbook (checked under SpecT)          *)

\* the text of the cell as the code reads it: str(cell.value), "" for None
RawText(cell) == ValText(cell.value)

\* C15: the native hyperlink comes first, then the hyperlink formula, then a
\* url in the text. A cell with a native target u1 whose text holds a url u2
\* gets u1 appended (to its text as it stands); a cell without native target
\* whose formula yields a url gets that url; and a cell without native target
\* whose formula yields none (no HYPERLINK formula, or no first argument) has
\* the inline scan applied to its text: the first url in it is appended, and
\* the text is kept when there is none.
C15_SourceOrder ==
    calls >= 1 =>
      \A r \in RowsInScope :
        LET c == CellBefore(r)
            t == RawText(c)
        IN  /\ (c.hyperlink # <<>> /\ ~Contains(t, sep))
                  => ValueAfter(r) = StrValue(t \o sep \o c.hyperlink)
            /\ c = Cell(StrValue(TXT_INLINE), URL_NATIVE)
                  => ValueAfter(r) = StrValue(TXT_INLINE \o sep \o URL_NATIVE)
            /\ c = Cell(StrValue(Formula2(URL_XY, <<";">>, TXT_LABEL)), <<>>)
                  => ValueAfter(r) = StrValue(TXT_LABEL \o sep \o URL_XY)
            /\ (c.hyperlink = <<>> /\ FormulaParts(c).url = <<>> /\ ~Contains(t, sep))
                  => ValueAfter(r) = IF search_url(t) = <<>> THEN StrValue(t)
                                     ELSE StrValue(t \o sep \o search_url(t))
            /\ c \in {Cell(StrValue(FORMULA_OTHER), <<>>), Cell(StrValue(FORMULA_NOURL), <<>>)}
                  => ValueAfter(r) = StrValue(t \o sep \o URL_XY)

\* one call has met a cell with a native target and a url in its text, or a
\* formula without a url of its own and a url in its text
C15_Witness ==
    /\ calls >= 1
    /\ \E r \in RowsInScope :
         \/ /\ CellBefore(r) = Cell(StrValue(TXT_INLINE), URL_NATIVE)
            /\ ValueAfter(r) = StrValue(TXT_INLINE \o sep \o URL_NATIVE)
         \/ /\ CellBefore(r) = Cell(StrValue(FORMULA_NOURL), <<>>)
            /\ ValueAfter(r) = StrValue(FORMULA_NOURL \o sep \o URL_XY)

\* C16: a target cell at or after the start row for which no url is found, or
\* whose text (the friendly text of its hyperlink formula when the formula
\* gives url and text, else str(cell.value)) already contains the separator,
\* holds exactly that text after the call: nothing is appended. A cell of one
\* blank stays one blank, and "Label ### https://x/y" stays as it is under
\* the separator " ### ".
C16_NothingAppended ==
    calls >= 1 =>
      \A r \in RowsInScope :
        LET c == CellBefore(r) IN
        /\ (DiscoverableUrl(c) = <<>> \/ Contains(CellText(c), sep))
              => ValueAfter(r) = StrValue(CellText(c))
        /\ c = Cell(StrValue(<<" ">>), <<>>) => ValueAfter(r) = StrValue(<<" ">>)
        /\ c = Cell(StrValue(TXT_LABEL), <<>>) => ValueAfter(r) = StrValue(TXT_LABEL)
        /\ (c = Cell(StrValue(TXT_DONE), <<>>) /\ sep = DEFAULT_SEPARATOR)
              => ValueAfter(r) = StrValue(TXT_DONE)
        /\ (c = Cell(StrValue(TXT_DONE), URL_NATIVE) /\ sep = DEFAULT_SEPARATOR)
              => ValueAfter(r) = StrValue(TXT_DONE)

\* one call has met a cell that holds a url and the separator already
C16_Witness ==
    /\ calls >= 1 /\ sep = DEFAULT_SEPARATOR
    /\ \E r \in RowsInScope :
         /\ CellBefore(r) = Cell(StrValue(TXT_DONE), <<>>)
         /\ ValueAfter(r) = StrValue(TXT_DONE)

\* the rows at or after the start row whose target cell, holding `before`,
\* does not hold its text any more in `after`: separator and url were added
RowsAppended(before, after) ==
    {r \in 1..before.max_row :
        /\ r >= start_row
        /\ after.cells[r][col_b].value # StrValue(CellText(before.cells[r][col_b]))}

\* C17: the value a call returns is the number of rows from the start row to
\* the last row whose target cell got separator + url appended in that call
\* (checked for the first and the second call on a worksheet); it is 0, and
\* the sheet is left as it was, when the sheet has fewer rows than the start
\* row; and every call saves the workbook exactly once.
C17_CountAndSave ==
    /\ saves = calls
    /\ calls = 1 => changed = Cardinality(RowsAppended(ws0, ws1))
    /\ calls = 2 => changed = Cardinality(RowsAppended(ws1, ws))
    /\ (calls >= 1 /\ ws0.max_row < start_row) => (changed = 0 /\ ws = ws0)

\* a call on a sheet of two rows changed one of them and kept the other, and
\* the workbook was saved once
C17_Witness ==
    /\ calls = 1 /\ saves = 1
    /\ ws0.max_row = 2 /\ start_row = 1
    /\ changed = 1
    /\ \E r \in RowsInScope : ValueAfter(r) = StrValue(CellText(CellBefore(r)))

\* a call on a sheet that ends before the start row returned 0 and saved
C17_WitnessEmpty ==
    calls = 1 /\ ws0.max_row < start_row /\ changed = 0 /\ saves = 1

\* u is one absolute http(s) url: the pattern https?://\S+ matches all of it
IsAbsoluteUrl(u) == MatchesAt(u, 1) /\ search_url(u) = u

\* C18 (as claimed): the url the call extracts from a target cell, and appends
\* when the text has no separator, is absent, or an absolute http(s) url, or
\* the native hyperlink target of the cell; the first argument of a HYPERLINK
\* formula is never used when it is something else.
C18_UrlIsAbsolute ==
    calls >= 1 =>
      \A r \in RowsInScope :
        LET c == CellBefore(r)
            u == DiscoverableUrl(c)
        IN  (u # <<>> /\ ValueAfter(r) = StrValue(CellText(c) \o sep \o u))
              => (u = c.hyperlink \/ IsAbsoluteUrl(u))

----------------------------------------------------------------------------
(* Events caused by the pipeline's own files (checked under Spec)          *)

\* C19: under the pattern ETSA-TSA-*.xls no file the pipeline writes in the
\* watched folder (the converted .xlsx, the workbook the transform saves in
\* place, Processed_<stamp>.xlsx) has a matching name; the event such a file
\* causes is dropped at the name test without entering a stage; and the events
\* that follow one event from outside publish at most one artifact.
C19_NoSelfTrigger ==
    pattern = DEFAULT_WATCH_GLOB =>
      /\ \A n \in made : ~_matches(n, pattern)
      /\ self => (pc = "idle" /\ outcome = "no_match" /\ stages = <<>>)
      /\ pubs <= 1

\* a run converted, transformed and published an .xls, and the event for one
\* of the files it wrote has been dropped
C19_Witness ==
    /\ pattern = DEFAULT_WATCH_GLOB
    /\ self /\ outcome = "no_match"
    /\ pubs = 1 /\ Cardinality(dest) = 1
    /\ with_suffix(NAME_XLS, EXT_XLSX) \in made
    /\ \E n \in made : \E d \in dest : d.name = n

====
